---- MODULE Spec2Model ----
(***************************************************************************)
(* Model of amethyst_core/src/legion/dispatcher.rs: the staged Dispatcher  *)
(* (run, merge) and the DispatcherBuilder (add_*, is_empty, build).        *)
(*                                                                         *)
(* A task has no identity in the code beyond its position; the model       *)
(* labels every registered descriptor with a path (its kind and position   *)
(* in the queue it was pushed on, prefixed by the path of the bundle that  *)
(* registered it) so that order, loss and duplication can be observed.     *)
(***************************************************************************)
EXTENDS Naturals, Sequences, FiniteSets

VARIABLES
    pc,        \* position of the caller: "register", "build", "built", "panicked"
    builder,   \* the caller's DispatcherBuilder
    frames,    \* call stack of DispatcherBuilder::build (innermost last)
    built,     \* Option<Dispatcher> returned by the outermost build: <<>> or <<d>>
    fault,     \* why the thread panicked ("none" while it has not)
    log,       \* build events in program order: pass entered, descriptor consumed, merge
    ran,       \* what the last Dispatcher::run call did, and how many calls were made
    operands,  \* merge scenario: the dispatchers A, B, C handed to merge
    mpc,       \* merge scenario: position ("input", "pairs", "triples")
    mOut       \* merge scenario: the dispatchers merge returned

vars == <<pc, builder, frames, built, fault, log, ran, operands, mpc, mOut>>
buildVars == <<pc, builder, frames, built, fault, log, ran>>
mergeVars == <<operands, mpc, mOut>>

\* ---------------------------------------------------------------- bounds

\* Most descriptors the caller registers on its builder before build.
MaxDescs == 3

\* Most tasks pushed, in total, on the three dispatchers of the merge scenario.
MaxMergeTasks == 4

\* Most run calls made on the built dispatcher.
MaxRuns == 2

\* ---------------------------------------------------------------- Stage

Stage == {"Begin", "Logic", "Render", "ThreadLocal"}

\* The keys Dispatcher::default gives the stage map.
ParallelStages == {"Begin", "Logic", "Render"}

\* ------------------------------------------------------------ Dispatcher

\* Mutant: Dispatcher::default without the Render bucket.
DispatcherDefaultNoRender ==
    [thread_locals |-> <<>>,
     stages |-> [s \in {"Begin", "Logic"} |-> <<>>]]

\* Mutant: Dispatcher::default with a bucket for every Stage value.
DispatcherDefaultAllStages ==
    [thread_locals |-> <<>>,
     stages |-> [s \in Stage |-> <<>>]]

DispatcherDefault ==
    [thread_locals |-> <<>>,
     stages |-> [s \in ParallelStages |-> <<>>]]

\* self.stages.get_mut(k).unwrap() of the merge loop finds no bucket.
MergeMissesBucket(self, other) ==
    \E k \in DOMAIN self.stages : k \notin DOMAIN other.stages

\* Mutant: merge that puts other's items before self's.
merge_prepend(self, other) ==
    [thread_locals |-> other.thread_locals \o self.thread_locals,
     stages |-> [k \in DOMAIN self.stages |->
                    (IF k \in DOMAIN other.stages THEN other.stages[k] ELSE <<>>)
                    \o self.stages[k]]]

\* Mutant: merge that forgets other's thread-locals.
merge_no_locals(self, other) ==
    [thread_locals |-> self.thread_locals,
     stages |-> [k \in DOMAIN self.stages |->
                    self.stages[k] \o
                    (IF k \in DOMAIN other.stages THEN other.stages[k] ELSE <<>>)]]

\* Dispatcher::merge: other's thread-locals after self's, and for every key
\* of self's map other's bucket after self's.
merge(self, other) ==
    [thread_locals |-> self.thread_locals \o other.thread_locals,
     stages |-> [k \in DOMAIN self.stages |->
                    self.stages[k] \o
                    (IF k \in DOMAIN other.stages THEN other.stages[k] ELSE <<>>)]]

\* ------------------------------------------------------ DispatcherBuilder

DispatcherBuilderDefault ==
    [systems |-> <<>>, thread_locals |-> <<>>, bundles |-> <<>>]

\* Mutant: is_empty that does not look at the bundles queue.
is_empty_no_bundles(b) ==
    b.systems = <<>> /\ b.thread_locals = <<>>

is_empty(b) ==
    b.systems = <<>> /\ b.bundles = <<>> /\ b.thread_locals = <<>>

\* A boxed ConsumeDesc: which wrapper it is, the stage it carries, its label,
\* whether its factory succeeds, and (for a bundle) which bundle it wraps.
Desc(kind, stage, id, ok, bundle) ==
    [kind |-> kind, stage |-> stage, id |-> id, ok |-> ok, bundle |-> bundle]

add_thread_local(b, id) ==
    [b EXCEPT !.thread_locals =
        Append(@, Desc("DispatcherThreadLocal", "none", id, TRUE, "none"))]

add_thread_local_desc(b, id, ok) ==
    [b EXCEPT !.thread_locals =
        Append(@, Desc("DispatcherThreadLocalDesc", "none", id, ok, "none"))]

add_system(b, stage, id) ==
    [b EXCEPT !.systems =
        Append(@, <<stage, Desc("DispatcherSystem", stage, id, TRUE, "none")>>)]

add_system_desc(b, stage, id, ok) ==
    [b EXCEPT !.systems =
        Append(@, <<stage, Desc("DispatcherSystemDesc", stage, id, ok, "none")>>)]

\* Mutant: add_bundle that pushes on the thread_locals queue.
add_bundle_on_thread_locals(b, bundle, id) ==
    [b EXCEPT !.thread_locals =
        Append(@, Desc("DispatcherSystemBundle", "none", id, TRUE, bundle))]

add_bundle(b, bundle, id) ==
    [b EXCEPT !.bundles =
        Append(@, Desc("DispatcherSystemBundle", "none", id, TRUE, bundle))]

\* The fluent forms: the add_* call, then the builder itself is returned.
with_thread_local(b, id) == add_thread_local(b, id)

with_thread_local_desc(b, id, ok) == add_thread_local_desc(b, id, ok)

with_system(b, stage, id) == add_system(b, stage, id)

with_system_desc(b, stage, id, ok) == add_system_desc(b, stage, id, ok)

with_bundle(b, bundle, id) == add_bundle(b, bundle, id)

BuilderSize(b) == Len(b.systems) + Len(b.bundles) + Len(b.thread_locals)

\* ------------------------------------------------------------ the bundles

\* One add_* call a bundle makes on the builder it is handed.
Reg(op, stage, ok, bundle) ==
    [op |-> op, stage |-> stage, ok |-> ok, bundle |-> bundle]

\* The bundles a caller may register: what each one's build registers, in order.
BundleNames == {"Empty", "Leaf", "Nest", "Locals", "Deep", "BadChild", "Broken"}

BundleRegs(name) ==
    CASE name = "Empty"    -> <<>>
      [] name = "Leaf"     -> <<Reg("add_system", "Logic", TRUE, "none"),
                                Reg("add_system_desc", "Render", TRUE, "none")>>
      [] name = "Nest"     -> <<Reg("add_system", "Logic", TRUE, "none"),
                                Reg("add_system", "Begin", TRUE, "none"),
                                Reg("add_bundle", "none", TRUE, "Leaf")>>
      [] name = "Locals"   -> <<Reg("add_thread_local", "none", TRUE, "none"),
                                Reg("add_system", "Logic", TRUE, "none")>>
      [] name = "Deep"     -> <<Reg("add_bundle", "none", TRUE, "Nest"),
                                Reg("add_thread_local_desc", "none", TRUE, "none")>>
      [] name = "BadChild" -> <<Reg("add_system_desc", "Logic", FALSE, "none")>>
      [] name = "Broken"   -> <<Reg("add_system", "Logic", TRUE, "none")>>

\* Whether the bundle's build returns Ok(()) after registering.
BundleOk(name) == name # "Broken"

\* Bundles nested below this one, itself included.
BundleDepth(name) ==
    CASE name = "Deep" -> 3
      [] name = "Nest" -> 2
      [] OTHER         -> 1

\* Descriptors a bundle realizes in total, over all nesting levels.
RECURSIVE BundleSystems(_)
BundleSystems(name) ==
    LET regs == BundleRegs(name)
        RECURSIVE Sum(_)
        Sum(j) ==
            IF j > Len(regs) THEN 0
            ELSE (CASE regs[j].op \in {"add_system", "add_system_desc"} -> 1
                    [] regs[j].op = "add_bundle" -> BundleSystems(regs[j].bundle)
                    [] OTHER -> 0) + Sum(j + 1)
    IN Sum(1)

\* Label of the j-th descriptor a bundle labelled parent registers.
ChildId(parent, j) == parent \o << <<"r", j>> >>

\* The add_* call of one registration, on builder b.
ApplyReg(b, reg, id) ==
    CASE reg.op = "add_system"            -> add_system(b, reg.stage, id)
      [] reg.op = "add_system_desc"       -> add_system_desc(b, reg.stage, id, reg.ok)
      [] reg.op = "add_thread_local"      -> add_thread_local(b, id)
      [] reg.op = "add_thread_local_desc" -> add_thread_local_desc(b, id, reg.ok)
      [] reg.op = "add_bundle"            -> add_bundle(b, reg.bundle, id)

\* SystemBundle::build(world, builder): the bundle's add_* calls from the j-th on.
RECURSIVE BundleBuild(_, _, _, _)
BundleBuild(b, regs, parent, j) ==
    IF j > Len(regs) THEN b
    ELSE BundleBuild(ApplyReg(b, regs[j], ChildId(parent, j)), regs, parent, j + 1)

\* ------------------------------------------------------------ ConsumeDesc

ConsumeResult(res, dispatcher, b) ==
    [res |-> res, dispatcher |-> dispatcher, builder |-> b]

\* A task pushed on the bucket of its stage; no bucket for the stage is a panic.
PushSystem(desc, dispatcher, b) ==
    IF desc.stage \in DOMAIN dispatcher.stages
    THEN ConsumeResult("Ok",
            [dispatcher EXCEPT !.stages[desc.stage] = Append(@, desc.id)], b)
    ELSE ConsumeResult("panic", dispatcher, b)

PushThreadLocal(desc, dispatcher, b) ==
    ConsumeResult("Ok",
        [dispatcher EXCEPT !.thread_locals = Append(@, desc.id)], b)

\* ConsumeDesc::consume(self, world, stages, builder) -> Result<(), Error>
consume(desc, dispatcher, b) ==
    CASE desc.kind = "DispatcherSystem" -> PushSystem(desc, dispatcher, b)
      [] desc.kind = "DispatcherSystemDesc" ->
            IF desc.ok THEN PushSystem(desc, dispatcher, b)
            ELSE ConsumeResult("Err", dispatcher, b)
      [] desc.kind = "DispatcherThreadLocal" -> PushThreadLocal(desc, dispatcher, b)
      [] desc.kind = "DispatcherThreadLocalDesc" ->
            IF desc.ok THEN PushThreadLocal(desc, dispatcher, b)
            ELSE ConsumeResult("Err", dispatcher, b)
      [] desc.kind = "DispatcherSystemBundle" ->
            ConsumeResult(IF BundleOk(desc.bundle) THEN "Ok" ELSE "Err",
                dispatcher,
                BundleBuild(b, BundleRegs(desc.bundle), desc.id, 1))

\* ------------------------------------------------- DispatcherBuilder::build

\* One activation of build: the builder it drains (self), its dispatcher, its
\* recursive_builder, and where it stands: draining the queues ("drain"),
\* waiting for recursive_builder.build(world) ("await") or merged ("merged").
Frame(self) ==
    [self |-> self,
     dispatcher |-> DispatcherDefault,
     recursive_builder |-> DispatcherBuilderDefault,
     at |-> "drain"]

\* A logged event: what happened, to which label, in which pass of build, and
\* (for a consume) which wrapper was consumed and what consume returned.
Event(ev, id, pass, kind, res) ==
    [ev |-> ev, id |-> id, pass |-> pass, kind |-> kind, res |-> res]

Ev(ev, id, pass, kind) == Event(ev, id, pass, kind, "none")

Top == frames[Len(frames)]

\* Mutant: the result of consume dropped instead of unwrapped.
UnwrappedIgnored(desc, rest) ==
    LET r == consume(desc, Top.dispatcher, Top.recursive_builder)
        n == Len(frames)
    IN  /\ log' = Append(log, Event("consume", desc.id, n, desc.kind, r.res))
        /\ frames' = [frames EXCEPT ![n] =
                        [@ EXCEPT !.self = rest,
                                  !.dispatcher = r.dispatcher,
                                  !.recursive_builder = r.builder]]
        /\ UNCHANGED <<pc, fault, builder, built, ran, mergeVars>>

\* The state after desc.consume(world, &mut dispatcher, &mut recursive_builder)
\* .unwrap() in the frame whose queues are left as rest.
Unwrapped(desc, rest) ==
    LET r == consume(desc, Top.dispatcher, Top.recursive_builder)
        n == Len(frames)
    IN  /\ log' = Append(log, Event("consume", desc.id, n, desc.kind, r.res))
        /\ IF r.res = "Ok"
           THEN /\ frames' = [frames EXCEPT ![n] =
                                [@ EXCEPT !.self = rest,
                                          !.dispatcher = r.dispatcher,
                                          !.recursive_builder = r.builder]]
                /\ UNCHANGED <<pc, fault>>
           ELSE /\ frames' = <<>>
                /\ pc' = "panicked"
                /\ fault' = IF r.res = "Err" THEN "consume_err" ELSE "consume_no_bucket"
        /\ UNCHANGED <<builder, built, ran, mergeVars>>

\* builder.build(world) is called: Dispatcher::default(), DispatcherBuilder::default().
\* build takes the builder by value; the variable builder keeps what the caller
\* had registered, and no add_* is possible on it any more.
Build ==
    /\ pc = "register"
    /\ pc' = "build"
    /\ frames' = <<Frame(builder)>>
    /\ log' = <<Ev("pass", <<>>, 1, "none")>>
    /\ UNCHANGED <<builder, built, fault, ran, mergeVars>>

\* Mutant: the systems queue consumed from its back.
ConsumeSystemLast ==
    /\ pc = "build"
    /\ Top.at = "drain"
    /\ Top.self.systems # <<>>
    /\ LET q == Top.self.systems
       IN  Unwrapped(q[Len(q)][2],
                     [Top.self EXCEPT !.systems = SubSeq(q, 1, Len(q) - 1)])

\* for desc in self.systems.drain(..)
ConsumeSystem ==
    /\ pc = "build"
    /\ Top.at = "drain"
    /\ Top.self.systems # <<>>
    /\ Unwrapped(Head(Top.self.systems)[2],
                 [Top.self EXCEPT !.systems = Tail(@)])

\* Mutant: a bundle consumed with a builder of its own, which is then dropped.
ConsumeBundleDiscarding ==
    /\ pc = "build"
    /\ Top.at = "drain"
    /\ Top.self.systems = <<>>
    /\ Top.self.bundles # <<>>
    /\ log' = Append(log, Event("consume", Head(Top.self.bundles).id, Len(frames),
                                "DispatcherSystemBundle", "Ok"))
    /\ frames' = [frames EXCEPT ![Len(frames)].self.bundles = Tail(@)]
    /\ UNCHANGED <<pc, builder, built, fault, ran, mergeVars>>

\* for bundle in self.bundles.drain(..)
ConsumeBundle ==
    /\ pc = "build"
    /\ Top.at = "drain"
    /\ Top.self.systems = <<>>
    /\ Top.self.bundles # <<>>
    /\ Unwrapped(Head(Top.self.bundles),
                 [Top.self EXCEPT !.bundles = Tail(@)])

\* Mutant: the thread_locals queue drained without consuming its descriptors.
ConsumeThreadLocalDropped ==
    /\ pc = "build"
    /\ Top.at = "drain"
    /\ Top.self.systems = <<>>
    /\ Top.self.bundles = <<>>
    /\ Top.self.thread_locals # <<>>
    /\ frames' = [frames EXCEPT ![Len(frames)].self.thread_locals = Tail(@)]
    /\ UNCHANGED <<pc, builder, built, fault, log, ran, mergeVars>>

\* Mutant: the thread_locals loop not waiting for the bundles loop.
ConsumeThreadLocalEarly ==
    /\ pc = "build"
    /\ Top.at = "drain"
    /\ Top.self.systems = <<>>
    /\ Top.self.thread_locals # <<>>
    /\ Unwrapped(Head(Top.self.thread_locals),
                 [Top.self EXCEPT !.thread_locals = Tail(@)])

\* for desc in self.thread_locals.drain(..)
ConsumeThreadLocal ==
    /\ pc = "build"
    /\ Top.at = "drain"
    /\ Top.self.systems = <<>>
    /\ Top.self.bundles = <<>>
    /\ Top.self.thread_locals # <<>>
    /\ Unwrapped(Head(Top.self.thread_locals),
                 [Top.self EXCEPT !.thread_locals = Tail(@)])

Drained(f) == f.at = "drain" /\ is_empty(f.self)

\* if !recursive_builder.is_empty() { ... recursive_builder.build(world) ... }
Recurse ==
    /\ pc = "build"
    /\ Drained(Top)
    /\ ~is_empty(Top.recursive_builder)
    /\ frames' = Append([frames EXCEPT ![Len(frames)].at = "await"],
                        Frame(Top.recursive_builder))
    /\ log' = Append(log, Ev("pass", <<>>, Len(frames) + 1, "none"))
    /\ UNCHANGED <<pc, builder, built, fault, ran, mergeVars>>

\* Mutant: build that returns its dispatcher without looking at recursive_builder.
ReturnWithoutRecursion ==
    /\ pc = "build"
    /\ Drained(Top) \/ Top.at = "merged"
    /\ LET n == Len(frames)
           d == Top.dispatcher
       IN  IF n = 1
           THEN /\ built' = <<d>>
                /\ pc' = "built"
                /\ frames' = <<>>
                /\ UNCHANGED <<fault, log>>
           ELSE /\ frames' = [SubSeq(frames, 1, n - 1) EXCEPT ![n - 1] =
                                [@ EXCEPT !.dispatcher = merge(@, d),
                                          !.at = "merged"]]
                /\ log' = Append(log, Ev("merge", <<>>, n - 1, "none"))
                /\ UNCHANGED <<pc, built, fault>>
    /\ UNCHANGED <<builder, ran, mergeVars>>

\* build returns its dispatcher: to the caller, or to the build that awaits it,
\* which merges it onto its own.
Return ==
    /\ pc = "build"
    /\ \/ Drained(Top) /\ is_empty(Top.recursive_builder)
       \/ Top.at = "merged"
    /\ LET n == Len(frames)
           d == Top.dispatcher
       IN  IF n = 1
           THEN /\ built' = <<d>>
                /\ pc' = "built"
                /\ frames' = <<>>
                /\ UNCHANGED <<fault, log>>
           ELSE IF MergeMissesBucket(frames[n - 1].dispatcher, d)
           THEN /\ pc' = "panicked"
                /\ fault' = "merge_no_bucket"
                /\ frames' = <<>>
                /\ UNCHANGED <<built, log>>
           ELSE /\ frames' = [SubSeq(frames, 1, n - 1) EXCEPT ![n - 1] =
                                [@ EXCEPT !.dispatcher = merge(@, d),
                                          !.at = "merged"]]
                /\ log' = Append(log, Ev("merge", <<>>, n - 1, "none"))
                /\ UNCHANGED <<pc, built, fault>>
    /\ UNCHANGED <<builder, ran, mergeVars>>

\* ------------------------------------------------------ the caller's add_*

\* Label of the next descriptor pushed on a queue of the caller's builder.
TopId(tag, queue) == << <<tag, Len(queue) + 1>> >>

CanRegister == pc = "register" /\ BuilderSize(builder) < MaxDescs

AddThreadLocal ==
    /\ CanRegister
    /\ builder' = add_thread_local(builder, TopId("t", builder.thread_locals))
    /\ UNCHANGED <<pc, frames, built, fault, log, ran, mergeVars>>

AddThreadLocalDesc ==
    /\ CanRegister
    /\ \E ok \in BOOLEAN :
         builder' = add_thread_local_desc(builder, TopId("t", builder.thread_locals), ok)
    /\ UNCHANGED <<pc, frames, built, fault, log, ran, mergeVars>>

AddSystem ==
    /\ CanRegister
    /\ \E stage \in Stage :
         builder' = add_system(builder, stage, TopId("s", builder.systems))
    /\ UNCHANGED <<pc, frames, built, fault, log, ran, mergeVars>>

AddSystemDesc ==
    /\ CanRegister
    /\ \E stage \in Stage, ok \in BOOLEAN :
         builder' = add_system_desc(builder, stage, TopId("s", builder.systems), ok)
    /\ UNCHANGED <<pc, frames, built, fault, log, ran, mergeVars>>

AddBundle ==
    /\ CanRegister
    /\ \E bundle \in BundleNames :
         builder' = add_bundle(builder, bundle, TopId("b", builder.bundles))
    /\ UNCHANGED <<pc, frames, built, fault, log, ran, mergeVars>>

WithThreadLocal ==
    /\ CanRegister
    /\ builder' = with_thread_local(builder, TopId("t", builder.thread_locals))
    /\ UNCHANGED <<pc, frames, built, fault, log, ran, mergeVars>>

WithThreadLocalDesc ==
    /\ CanRegister
    /\ \E ok \in BOOLEAN :
         builder' = with_thread_local_desc(builder, TopId("t", builder.thread_locals), ok)
    /\ UNCHANGED <<pc, frames, built, fault, log, ran, mergeVars>>

WithSystem ==
    /\ CanRegister
    /\ \E stage \in Stage :
         builder' = with_system(builder, stage, TopId("s", builder.systems))
    /\ UNCHANGED <<pc, frames, built, fault, log, ran, mergeVars>>

WithSystemDesc ==
    /\ CanRegister
    /\ \E stage \in Stage, ok \in BOOLEAN :
         builder' = with_system_desc(builder, stage, TopId("s", builder.systems), ok)
    /\ UNCHANGED <<pc, frames, built, fault, log, ran, mergeVars>>

WithBundle ==
    /\ CanRegister
    /\ \E bundle \in BundleNames :
         builder' = with_bundle(builder, bundle, TopId("b", builder.bundles))
    /\ UNCHANGED <<pc, frames, built, fault, log, ran, mergeVars>>

\* --------------------------------------------------------- Dispatcher::run

\* Before the first run call. A run record holds the stage run, whether the
\* world held the ArcThreadPool, the bucket handed to the StageExecutor, the
\* thread-local calls made, and how many run calls the dispatcher has seen.
NoRun ==
    [stage |-> "none", hasPool |-> FALSE, handed |-> <<>>, events |-> <<>>,
     calls |-> 0]

\* self.thread_locals.iter_mut().for_each(|local| local.run(world)), from the
\* i-th task on: each call starts and ends before the next one starts.
RECURSIVE RunThreadLocals(_, _)
RunThreadLocals(thread_locals, i) ==
    IF i > Len(thread_locals) THEN <<>>
    ELSE <<Ev("start", thread_locals[i], 0, "none"),
           Ev("end", thread_locals[i], 0, "none")>>
         \o RunThreadLocals(thread_locals, i + 1)

\* Mutant: the thread-local loop starts at the second task.
run_skip_first(d, stage, hasPool) ==
    IF stage = "ThreadLocal"
    THEN [stage |-> stage, handed |-> <<>>,
          events |-> RunThreadLocals(d.thread_locals, 2), fault |-> "none"]
    ELSE IF stage \notin DOMAIN d.stages
    THEN [stage |-> stage, handed |-> <<>>, events |-> <<>>, fault |-> "run_no_bucket"]
    ELSE IF ~hasPool
    THEN [stage |-> stage, handed |-> <<>>, events |-> <<>>, fault |-> "run_no_pool"]
    ELSE [stage |-> stage, handed |-> d.stages[stage], events |-> <<>>, fault |-> "none"]

\* Mutant: a parallel stage hands the Logic bucket along with its own.
run_with_logic(d, stage, hasPool) ==
    IF stage = "ThreadLocal"
    THEN [stage |-> stage, handed |-> <<>>,
          events |-> RunThreadLocals(d.thread_locals, 1), fault |-> "none"]
    ELSE IF stage \notin DOMAIN d.stages
    THEN [stage |-> stage, handed |-> <<>>, events |-> <<>>, fault |-> "run_no_bucket"]
    ELSE IF ~hasPool
    THEN [stage |-> stage, handed |-> <<>>, events |-> <<>>, fault |-> "run_no_pool"]
    ELSE [stage |-> stage,
          handed |-> IF stage = "Logic" THEN d.stages[stage]
                     ELSE d.stages[stage] \o d.stages["Logic"],
          events |-> <<>>, fault |-> "none"]

\* Mutant: a parallel stage run without looking the ArcThreadPool up.
run_without_pool(d, stage, hasPool) ==
    IF stage = "ThreadLocal"
    THEN [stage |-> stage, handed |-> <<>>,
          events |-> RunThreadLocals(d.thread_locals, 1), fault |-> "none"]
    ELSE IF stage \notin DOMAIN d.stages
    THEN [stage |-> stage, handed |-> <<>>, events |-> <<>>, fault |-> "run_no_bucket"]
    ELSE [stage |-> stage, handed |-> d.stages[stage], events |-> <<>>, fault |-> "none"]

\* What run(stage, world) does on dispatcher d: the tasks handed to the
\* StageExecutor, the thread-local calls made, and the panic if any.
run(d, stage, hasPool) ==
    IF stage = "ThreadLocal"
    THEN [stage |-> stage, handed |-> <<>>,
          events |-> RunThreadLocals(d.thread_locals, 1), fault |-> "none"]
    ELSE IF stage \notin DOMAIN d.stages
    THEN [stage |-> stage, handed |-> <<>>, events |-> <<>>, fault |-> "run_no_bucket"]
    ELSE IF ~hasPool
    THEN [stage |-> stage, handed |-> <<>>, events |-> <<>>, fault |-> "run_no_pool"]
    ELSE [stage |-> stage, handed |-> d.stages[stage], events |-> <<>>, fault |-> "none"]

\* Mutant: run that drains the tasks it runs out of the dispatcher.
RunDraining ==
    /\ pc = "built"
    /\ ran.calls < MaxRuns
    /\ \E stage \in Stage, hasPool \in BOOLEAN :
         LET r == run(built[1], stage, hasPool)
         IN  /\ ran' = [stage |-> r.stage, hasPool |-> hasPool, handed |-> r.handed,
                        events |-> r.events, calls |-> ran.calls + 1]
             /\ fault' = r.fault
             /\ pc' = IF r.fault = "none" THEN "built" ELSE "panicked"
             /\ built' = IF stage = "ThreadLocal"
                         THEN <<[built[1] EXCEPT !.thread_locals = <<>>]>>
                         ELSE IF r.fault = "none"
                         THEN <<[built[1] EXCEPT !.stages[stage] = <<>>]>>
                         ELSE built
    /\ UNCHANGED <<builder, frames, log, mergeVars>>

\* dispatcher.run(stage, world), on a world with or without the ArcThreadPool.
Run ==
    /\ pc = "built"
    /\ ran.calls < MaxRuns
    /\ \E stage \in Stage, hasPool \in BOOLEAN :
         LET r == run(built[1], stage, hasPool)
         IN  /\ ran' = [stage |-> r.stage, hasPool |-> hasPool, handed |-> r.handed,
                        events |-> r.events, calls |-> ran.calls + 1]
             /\ fault' = r.fault
             /\ pc' = IF r.fault = "none" THEN "built" ELSE "panicked"
    /\ UNCHANGED <<builder, frames, built, log, mergeVars>>

\* --------------------------------------------------------- merge scenario

OperandNames == {"A", "B", "C"}

Tasks(d) ==
    Len(d.thread_locals)
    + Len(d.stages["Begin"]) + Len(d.stages["Logic"]) + Len(d.stages["Render"])

OperandTasks == Tasks(operands["A"]) + Tasks(operands["B"]) + Tasks(operands["C"])

\* A task is pushed on a bucket of one of the dispatchers (stages is a pub field).
PushTask ==
    /\ mpc = "input"
    /\ OperandTasks < MaxMergeTasks
    /\ \E o \in OperandNames, s \in ParallelStages :
         operands' = [operands EXCEPT ![o].stages[s] = Append(@, OperandTasks + 1)]
    /\ UNCHANGED <<mpc, mOut, buildVars>>

PushLocal ==
    /\ mpc = "input"
    /\ OperandTasks < MaxMergeTasks
    /\ \E o \in OperandNames :
         operands' = [operands EXCEPT ![o].thread_locals = Append(@, OperandTasks + 1)]
    /\ UNCHANGED <<mpc, mOut, buildVars>>

\* A.merge(B), B.merge(C), Dispatcher::default().merge(A), A.merge(Dispatcher::default())
MergePairs ==
    /\ mpc = "input"
    /\ mpc' = "pairs"
    /\ mOut' = [AB |-> merge(operands["A"], operands["B"]),
                BC |-> merge(operands["B"], operands["C"]),
                EA |-> merge(DispatcherDefault, operands["A"]),
                AE |-> merge(operands["A"], DispatcherDefault)]
    /\ UNCHANGED <<operands, buildVars>>

\* (A.merge(B)).merge(C) and A.merge(B.merge(C))
MergeTriples ==
    /\ mpc = "pairs"
    /\ mpc' = "triples"
    /\ mOut' = [AB |-> mOut.AB, BC |-> mOut.BC, EA |-> mOut.EA, AE |-> mOut.AE,
                L |-> merge(mOut.AB, operands["C"]),
                R |-> merge(operands["A"], mOut.BC)]
    /\ UNCHANGED <<operands, buildVars>>

\* ---------------------------------------------------------- specifications

Init ==
    /\ pc = "register"
    /\ builder = DispatcherBuilderDefault
    /\ frames = <<>>
    /\ built = <<>>
    /\ fault = "none"
    /\ log = <<>>
    /\ ran = NoRun
    /\ operands = [o \in OperandNames |-> DispatcherDefault]
    /\ mpc = "input"
    /\ mOut = <<>>

Next ==
    \/ AddThreadLocal
    \/ AddThreadLocalDesc
    \/ AddSystem
    \/ AddSystemDesc
    \/ AddBundle
    \/ WithThreadLocal
    \/ WithThreadLocalDesc
    \/ WithSystem
    \/ WithSystemDesc
    \/ WithBundle
    \/ Build
    \/ ConsumeSystem
    \/ ConsumeBundle
    \/ ConsumeThreadLocal
    \/ Recurse
    \/ Return
    \/ Run

\* The builder, its build and the dispatcher it yields.
Spec == Init /\ [][Next]_vars

MergeNext ==
    \/ PushTask
    \/ PushLocal
    \/ MergePairs
    \/ MergeTriples

\* Dispatcher::merge on dispatchers filled by hand.
MergeSpec == Init /\ [][MergeNext]_vars

\* ------------------------------------------------------------- properties

Range(q) == {q[i] : i \in 1..Len(q)}

\* Position of x in q, 0 when it is not there.
Index(q, x) ==
    IF \E i \in 1..Len(q) : q[i] = x
    THEN CHOOSE i \in 1..Len(q) : q[i] = x /\ \A j \in 1..(i - 1) : q[j] # x
    ELSE 0

RECURSIVE SumLen(_, _)
SumLen(f, keys) ==
    IF keys = {} THEN 0
    ELSE LET k == CHOOSE k \in keys : TRUE
         IN  Len(f[k]) + SumLen(f, keys \ {k})

\* Parallel tasks of a dispatcher, over all its buckets.
ParallelCount(d) == SumLen(d.stages, DOMAIN d.stages)

\* Every ordered collection a dispatcher holds.
Collections(d) == {d.stages[k] : k \in DOMAIN d.stages} \cup {d.thread_locals}

HasBuilt == built # <<>>

Consumed(id) == \E i \in 1..Len(log) : log[i].ev = "consume" /\ log[i].id = id

\* The pass of build in which the descriptor labelled id was consumed.
PassOf(id) ==
    LET i == CHOOSE i \in 1..Len(log) : log[i].ev = "consume" /\ log[i].id = id
    IN  log[i].pass

\* C1: run(ThreadLocal, world) calls every thread-local task exactly once, in
\* sequence order, each call ending before the next one starts.
C1_ThreadLocalOrder ==
    (HasBuilt /\ ran.stage = "ThreadLocal") =>
        LET tl == built[1].thread_locals
        IN  /\ Len(ran.events) = 2 * Len(tl)
            /\ \A i \in 1..Len(tl) :
                 /\ ran.events[2 * i - 1].ev = "start"
                 /\ ran.events[2 * i - 1].id = tl[i]
                 /\ ran.events[2 * i].ev = "end"
                 /\ ran.events[2 * i].id = tl[i]

C1_Witness ==
    /\ HasBuilt
    /\ ran.stage = "ThreadLocal"
    /\ Len(built[1].thread_locals) = 3
    /\ Len(ran.events) = 6

\* C2: a completed run of a parallel stage hands the executor exactly that
\* stage's bucket, no task of another bucket and no thread-local task; a run of
\* ThreadLocal calls thread-local tasks only and hands the executor nothing.
C2_StageIsolation ==
    HasBuilt =>
        LET d == built[1]
        IN  /\ (ran.stage \in ParallelStages /\ pc = "built") =>
                 /\ ran.handed = d.stages[ran.stage]
                 /\ ran.events = <<>>
                 /\ \A s \in DOMAIN d.stages \ {ran.stage} :
                      Range(ran.handed) \cap Range(d.stages[s]) = {}
                 /\ Range(ran.handed) \cap Range(d.thread_locals) = {}
            /\ ran.stage = "ThreadLocal" =>
                 /\ ran.handed = <<>>
                 /\ \A i \in 1..Len(ran.events) :
                      /\ ran.events[i].id \in Range(d.thread_locals)
                      /\ \A s \in DOMAIN d.stages :
                           ran.events[i].id \notin Range(d.stages[s])

C2_Witness ==
    /\ HasBuilt
    /\ pc = "built"
    /\ ran.stage = "Begin"
    /\ ran.handed # <<>>
    /\ built[1].stages["Logic"] # <<>>
    /\ built[1].thread_locals # <<>>

\* C3: A.merge(B) holds, for each of Begin, Logic and Render, A's bucket
\* followed by B's bucket, and A's thread-locals followed by B's: every item
\* once, in its original relative order.
C3_MergeAppends ==
    mpc # "input" =>
        LET a == operands["A"]
            b == operands["B"]
            r == mOut.AB
            Appended(x, y, z) ==
                /\ Len(z) = Len(x) + Len(y)
                /\ \A i \in 1..Len(x) : z[i] = x[i]
                /\ \A i \in 1..Len(y) : z[Len(x) + i] = y[i]
        IN  /\ DOMAIN r.stages = ParallelStages
            /\ \A s \in ParallelStages : Appended(a.stages[s], b.stages[s], r.stages[s])
            /\ Appended(a.thread_locals, b.thread_locals, r.thread_locals)

C3_Witness ==
    /\ mpc = "pairs"
    /\ operands["A"].stages["Logic"] # <<>>
    /\ operands["B"].stages["Logic"] # <<>>
    /\ operands["A"].thread_locals # <<>>
    /\ operands["B"].thread_locals # <<>>

\* C4: (A.merge(B)).merge(C) and A.merge(B.merge(C)) are the same dispatcher,
\* and merging Dispatcher::default() on either side of A gives A.
C4_MergeAssociativeIdentity ==
    /\ mpc # "input" =>
         /\ mOut.EA = operands["A"]
         /\ mOut.AE = operands["A"]
    /\ mpc = "triples" =>
         /\ mOut.L.thread_locals = mOut.R.thread_locals
         /\ mOut.L.stages = mOut.R.stages

C4_Witness ==
    /\ mpc = "triples"
    /\ \A o \in OperandNames : Tasks(operands[o]) > 0
    /\ operands["A"].thread_locals # <<>>
    /\ Len(mOut.L.stages["Logic"]) >= 2

AllPrebuilt(b) ==
    \A i \in 1..Len(b.systems) : b.systems[i][2].kind = "DispatcherSystem"

\* C5: built from n pre-built systems, no bundle and m thread-locals, the
\* dispatcher holds n parallel tasks over all its buckets and m thread-locals.
C5_BuildCompleteness ==
    (HasBuilt /\ builder.bundles = <<>> /\ AllPrebuilt(builder)) =>
        /\ ParallelCount(built[1]) = Len(builder.systems)
        /\ Len(built[1].thread_locals) = Len(builder.thread_locals)

C5_Witness ==
    /\ HasBuilt
    /\ builder.bundles = <<>>
    /\ AllPrebuilt(builder)
    /\ Len(builder.systems) = 2
    /\ builder.systems[1][1] # builder.systems[2][1]
    /\ Len(builder.thread_locals) = 1

\* Systems the bundles of builder b realize, over all nesting levels.
RECURSIVE BundledSystems(_, _)
BundledSystems(b, i) ==
    IF i > Len(b.bundles) THEN 0
    ELSE BundleSystems(b.bundles[i].bundle) + BundledSystems(b, i + 1)

OnlyBundle(b, name) ==
    /\ b.systems = <<>>
    /\ b.thread_locals = <<>>
    /\ Len(b.bundles) = 1
    /\ b.bundles[1].bundle = name

\* C6: a bundle registering k systems and one nested bundle of j systems
\* builds into k + j systems, the nested bundle's after the first-level ones
\* in every bucket; in general every system a bundle registers is realized,
\* and in every bucket and in the thread-local sequence the items of pass p
\* come before those of pass p + 1.
C6_BundleExpansion ==
    HasBuilt =>
        LET d == built[1]
        IN  /\ ParallelCount(d) = Len(builder.systems) + BundledSystems(builder, 1)
            /\ \A q \in Collections(d) :
                 \A i \in 1..Len(q), j \in 1..Len(q) :
                    i < j => /\ Consumed(q[i])
                             /\ Consumed(q[j])
                             /\ PassOf(q[i]) <= PassOf(q[j])
            /\ OnlyBundle(builder, "Nest") =>
                 /\ ParallelCount(d) = 2 + 2
                 /\ \A q \in Collections(d) :
                      \A i \in 1..Len(q), j \in 1..Len(q) :
                         (PassOf(q[i]) = 2 /\ PassOf(q[j]) = 3) => i < j

C6_Witness ==
    /\ HasBuilt
    /\ OnlyBundle(builder, "Nest")
    /\ Len(built[1].stages["Logic"]) = 2
    /\ PassOf(built[1].stages["Logic"][1]) = 2
    /\ PassOf(built[1].stages["Logic"][2]) = 3

\* How the outermost build ended, as its caller sees it. The function returns
\* Dispatcher, so an error value is not among the outcomes.
BuildOutcome ==
    CASE pc = "build"    -> "running"
      [] pc = "register" -> "not called"
      [] fault \in {"consume_err", "consume_no_bucket", "merge_no_bucket"} -> "panic"
      [] OTHER           -> "Dispatcher"

\* A deferred factory descriptor signalled failure while build consumed it.
FactoryFailed ==
    /\ fault = "consume_err"
    /\ log # <<>>
    /\ log[Len(log)].ev = "consume"
    /\ log[Len(log)].kind \in {"DispatcherSystemDesc", "DispatcherThreadLocalDesc"}

\* C7: when a deferred factory descriptor signals failure, build returns that
\* failure to its caller as an error value and produces no dispatcher.
C7_FailFastReturnsError ==
    FactoryFailed => (BuildOutcome = "Err" /\ built = <<>>)

\* C8: the default builder builds into a dispatcher whose Begin, Logic and
\* Render buckets are present and empty and whose thread-local sequence is
\* empty, with no descriptor consumed and no recursive pass started.
C8_EmptyBuilder ==
    (HasBuilt /\ is_empty(builder)) =>
        /\ DOMAIN built[1].stages = {"Begin", "Logic", "Render"}
        /\ \A s \in DOMAIN built[1].stages : built[1].stages[s] = <<>>
        /\ built[1].thread_locals = <<>>
        /\ log = <<Ev("pass", <<>>, 1, "none")>>

C8_Witness ==
    /\ HasBuilt
    /\ is_empty(builder)
    /\ pc = "built"

\* C9: every dispatcher (of a build in progress at any depth, merged or not,
\* or returned to the caller) has exactly the keys Begin, Logic and Render,
\* and neither run nor merge ever looks up a bucket that is absent.
C9_BucketsAlwaysPresent ==
    /\ \A i \in 1..Len(frames) :
         DOMAIN frames[i].dispatcher.stages = {"Begin", "Logic", "Render"}
    /\ \A i \in 1..Len(built) :
         DOMAIN built[i].stages = {"Begin", "Logic", "Render"}
    /\ fault \notin {"run_no_bucket", "merge_no_bucket"}

C9_Witness ==
    /\ HasBuilt
    /\ \E i \in 1..Len(log) : log[i].ev = "merge"
    /\ ran.stage = "Render"
    /\ ran.handed # <<>>

\* C10: two systems registered directly on the builder with the same stage are
\* in that stage's bucket in the order of their registration, and directly
\* registered thread-locals are in the thread-local sequence in theirs.
C10_RegistrationOrder ==
    HasBuilt =>
        LET d == built[1]
            sys == builder.systems
            tl == builder.thread_locals
        IN  /\ \A i \in 1..Len(sys), j \in 1..Len(sys) :
                 (i < j /\ sys[i][2].stage = sys[j][2].stage) =>
                    /\ sys[i][2].stage \in DOMAIN d.stages
                    /\ Index(d.stages[sys[i][2].stage], sys[i][2].id) > 0
                    /\ Index(d.stages[sys[i][2].stage], sys[i][2].id)
                         < Index(d.stages[sys[i][2].stage], sys[j][2].id)
            /\ \A i \in 1..Len(tl), j \in 1..Len(tl) :
                 i < j =>
                    /\ Index(d.thread_locals, tl[i].id) > 0
                    /\ Index(d.thread_locals, tl[i].id) < Index(d.thread_locals, tl[j].id)

C10_Witness ==
    /\ HasBuilt
    /\ Len(builder.systems) = 2
    /\ builder.systems[1][2].stage = builder.systems[2][2].stage
    /\ builder.systems[1][2].kind # builder.systems[2][2].kind
    /\ Len(builder.thread_locals) = 1
    /\ Len(built[1].stages[builder.systems[1][2].stage]) = 2

\* Every builder the program holds: the caller's, and the self and the
\* recursive_builder of every build in progress.
Builders ==
    {builder} \cup {frames[i].self : i \in 1..Len(frames)}
              \cup {frames[i].recursive_builder : i \in 1..Len(frames)}

\* C11: is_empty() is true exactly when the systems, bundles and thread-locals
\* queues are all empty: true on the default builder, false after any single
\* add_* or with_* call.
C11_IsEmptyIffQueuesEmpty ==
    /\ \A b \in Builders :
         is_empty(b) <=>
            (Len(b.systems) = 0 /\ Len(b.bundles) = 0 /\ Len(b.thread_locals) = 0)
    /\ is_empty(DispatcherBuilderDefault)
    /\ BuilderSize(builder) = 1 => ~is_empty(builder)

C11_Witness ==
    /\ pc = "register"
    /\ Len(builder.bundles) = 1
    /\ BuilderSize(builder) = 1
    /\ ~is_empty(builder)

\* C12: run of a parallel stage on a world without the thread pool panics and
\* runs no task, whether the stage's bucket is empty or not; run returns
\* nothing, so the fault is never a value the caller could inspect.
C12_NoPoolPanics ==
    (ran.calls > 0 /\ ran.stage \in ParallelStages /\ ~ran.hasPool) =>
        /\ pc = "panicked"
        /\ fault = "run_no_pool"
        /\ ran.handed = <<>>
        /\ ran.events = <<>>

C12_Witness ==
    /\ HasBuilt
    /\ ran.stage = "Logic"
    /\ ~ran.hasPool
    /\ pc = "panicked"
    /\ built[1].stages["Logic"] # <<>>
    /\ built[1].stages["Begin"] = <<>>

\* C13: consuming a pre-built task descriptor cannot fail: for every stage
\* add_system accepts, ThreadLocal included, the consume neither errors nor
\* faults, and the built dispatcher holds the task in the bucket of that stage.
C13_PrebuiltConsumeCannotFail ==
    /\ \A i \in 1..Len(log) :
         log[i].kind = "DispatcherSystem" => log[i].res = "Ok"
    /\ HasBuilt =>
         \A i \in 1..Len(builder.systems) :
            LET desc == builder.systems[i][2]
            IN  desc.kind = "DispatcherSystem" =>
                   /\ desc.stage \in DOMAIN built[1].stages
                   /\ desc.id \in Range(built[1].stages[desc.stage])

\* The queue a consumed wrapper was drained from: systems 1, bundles 2,
\* thread_locals 3.
QueueRank(kind) ==
    CASE kind \in {"DispatcherSystem", "DispatcherSystemDesc"} -> 1
      [] kind = "DispatcherSystemBundle" -> 2
      [] OTHER -> 3

IsConsume(i) == log[i].ev = "consume"

\* C14: within a pass every system descriptor is consumed before any bundle and
\* every bundle before any thread-local descriptor, and the recursive pass
\* starts only after the three queues of the current pass are drained: once it
\* has started, the passes above it consume nothing more.
C14_QueueOrder ==
    /\ \A i \in 1..Len(log), j \in 1..Len(log) :
         (i < j /\ IsConsume(i) /\ IsConsume(j) /\ log[i].pass = log[j].pass) =>
            QueueRank(log[i].kind) <= QueueRank(log[j].kind)
    /\ \A k \in 1..Len(log), j \in 1..Len(log) :
         (log[k].ev = "pass" /\ k < j /\ IsConsume(j)) => log[j].pass >= log[k].pass
    /\ \A i \in 1..(Len(frames) - 1) : is_empty(frames[i].self)

C14_Witness ==
    /\ Len(log) >= 6
    /\ \E i, j, k, n \in 1..Len(log) :
         /\ i < j /\ j < k /\ k < n
         /\ IsConsume(i) /\ log[i].pass = 1 /\ QueueRank(log[i].kind) = 1
         /\ IsConsume(j) /\ log[j].pass = 1 /\ QueueRank(log[j].kind) = 2
         /\ IsConsume(k) /\ log[k].pass = 1 /\ QueueRank(log[k].kind) = 3
         /\ log[n].ev = "pass" /\ log[n].pass = 2
    /\ IsConsume(Len(log))
    /\ log[Len(log)].pass = 2

\* C15: a failed consume is the last thing build does: no descriptor is
\* consumed after it, in the same queue, a later queue or a recursive pass, no
\* merge is performed, and no dispatcher is produced.
C15_FailureAbortsBuild ==
    \A i \in 1..Len(log) :
       (IsConsume(i) /\ log[i].res # "Ok") =>
          /\ i = Len(log)
          /\ pc = "panicked"
          /\ frames = <<>>
          /\ built = <<>>
          /\ \A j \in 1..Len(log) : log[j].ev # "merge"

C15_Witness ==
    /\ pc = "panicked"
    /\ fault = "consume_err"
    /\ Len(builder.systems) = 1
    /\ ~builder.systems[1][2].ok
    /\ Len(builder.bundles) = 1
    /\ Len(builder.thread_locals) = 1
    /\ Len(log) = 2

\* Descriptors a bundle registers, over all nesting levels.
RECURSIVE BundleDescs(_)
BundleDescs(name) ==
    LET regs == BundleRegs(name)
        RECURSIVE Sum(_)
        Sum(j) ==
            IF j > Len(regs) THEN 0
            ELSE 1 + (IF regs[j].op = "add_bundle" THEN BundleDescs(regs[j].bundle) ELSE 0)
                   + Sum(j + 1)
    IN Sum(1)

RECURSIVE BundledDescs(_, _)
BundledDescs(b, i) ==
    IF i > Len(b.bundles) THEN 0
    ELSE BundleDescs(b.bundles[i].bundle) + BundledDescs(b, i + 1)

Consumes == {i \in 1..Len(log) : IsConsume(i)}

\* Labels of the descriptors registered directly on builder b.
DirectIds(b) ==
    {b.systems[i][2].id : i \in 1..Len(b.systems)}
    \cup {b.bundles[i].id : i \in 1..Len(b.bundles)}
    \cup {b.thread_locals[i].id : i \in 1..Len(b.thread_locals)}

\* The state part of C16: what a completed build has consumed.
ConsumedExactlyOnce ==
    HasBuilt =>
        /\ \A i \in Consumes, j \in Consumes : log[i].id = log[j].id => i = j
        /\ \A id \in DirectIds(builder) : \E i \in Consumes : log[i].id = id
        /\ Cardinality(Consumes) = BuilderSize(builder) + BundledDescs(builder, 1)
        /\ frames = <<>>

\* The step part of C16: a build that returns has drained its three queues,
\* and the builds still waiting below it have drained theirs.
ReturnsDrained ==
    (Len(frames') < Len(frames) /\ pc' # "panicked") =>
        \A i \in 1..Len(frames) : is_empty(frames[i].self)

\* C16: a build that completes has consumed every descriptor registered on the
\* builder, and every descriptor a bundle registered during the build, exactly
\* once, and every build involved returns with its three queues empty.
C16_ConsumedExactlyOnce ==
    []ConsumedExactlyOnce /\ [][ReturnsDrained]_vars

C16_Witness ==
    /\ HasBuilt
    /\ OnlyBundle(builder, "Deep")
    /\ Cardinality(Consumes) = 8

Max(a, b) == IF a >= b THEN a ELSE b

Count(ev) == Cardinality({i \in 1..Len(log) : log[i].ev = ev})

\* Nesting depth of the bundles registered on builder b: 0 without a bundle.
RECURSIVE NestingDepth(_, _)
NestingDepth(b, i) ==
    IF i > Len(b.bundles) THEN 0
    ELSE Max(BundleDepth(b.bundles[i].bundle), NestingDepth(b, i + 1))

\* Levels below a bundle at which something is registered: 0 for a bundle that
\* registers nothing, else one more than the deepest bundle it registers.
RECURSIVE RegisteringDepth(_)
RegisteringDepth(name) ==
    LET regs == BundleRegs(name)
        RECURSIVE Deepest(_)
        Deepest(j) ==
            IF j > Len(regs) THEN 0
            ELSE Max(IF regs[j].op = "add_bundle"
                     THEN RegisteringDepth(regs[j].bundle) ELSE 0,
                     Deepest(j + 1))
    IN  IF regs = <<>> THEN 0 ELSE 1 + Deepest(1)

RECURSIVE RegisteringLevels(_, _)
RegisteringLevels(b, i) ==
    IF i > Len(b.bundles) THEN 0
    ELSE Max(RegisteringDepth(b.bundles[i].bundle), RegisteringLevels(b, i + 1))

\* C17 as claimed: with bundles nested d deep, a completed build has made
\* exactly d + 1 passes and d merges.
C17_PassesByNestingDepth ==
    HasBuilt =>
        /\ Count("pass") = NestingDepth(builder, 1) + 1
        /\ Count("merge") = NestingDepth(builder, 1)

\* A build that has drained its queues starts a recursive pass exactly when
\* its recursive_builder is not empty.
RecursesIffRegistered ==
    (pc = "build" /\ Drained(Top)) =>
        ((Len(frames') = Len(frames) + 1) <=> ~is_empty(Top.recursive_builder))

\* C17, amended: build recurses until a pass registers nothing: with d the
\* number of nesting levels at which a bundle registers at least one
\* descriptor (a bundle that registers nothing adds no level), a completed
\* build has made exactly d + 1 passes and d merges, and a recursive pass is
\* started exactly when recursive_builder is not empty after the current pass.
C17_PassesByRegisteringLevels ==
    /\ [](HasBuilt =>
            /\ Count("pass") = RegisteringLevels(builder, 1) + 1
            /\ Count("merge") = RegisteringLevels(builder, 1))
    /\ [][RecursesIffRegistered]_vars

C17_Witness ==
    /\ HasBuilt
    /\ Len(builder.bundles) = 2
    /\ builder.bundles[1].bundle = "Empty"
    /\ builder.bundles[2].bundle = "Deep"
    /\ Count("pass") = 4
    /\ Count("merge") = 3

SystemKinds == {"DispatcherSystem", "DispatcherSystemDesc"}

ThreadLocalKinds == {"DispatcherThreadLocal", "DispatcherThreadLocalDesc"}

\* C18 as claimed: a system registered by a bundle (its label is a path below
\* the bundle's) is consumed before any thread-local of the builder the bundle
\* was registered on, which is the builder of the pass before the system's.
C18_BundleSystemsBeforeThreadLocals ==
    \A i \in Consumes, j \in Consumes :
        ( /\ log[i].kind \in SystemKinds
          /\ Len(log[i].id) >= 2
          /\ log[j].kind \in ThreadLocalKinds
          /\ log[j].pass = log[i].pass - 1 ) => i < j

\* The add_* calls a caller can make, one per choice of arguments.
Calls ==
    {Reg("add_system", stage, TRUE, "none") : stage \in Stage}
    \cup {Reg("add_system_desc", stage, ok, "none") : stage \in Stage, ok \in BOOLEAN}
    \cup {Reg("add_thread_local", "none", TRUE, "none")}
    \cup {Reg("add_thread_local_desc", "none", ok, "none") : ok \in BOOLEAN}
    \cup {Reg("add_bundle", "none", TRUE, bundle) : bundle \in BundleNames}

QueueOf(op) ==
    CASE op \in {"add_system", "add_system_desc"} -> "s"
      [] op = "add_bundle" -> "b"
      [] OTHER -> "t"

QueueIn(b, tag) ==
    CASE tag = "s" -> b.systems
      [] tag = "b" -> b.bundles
      [] OTHER -> b.thread_locals

\* The calls that push on one queue.
CallsOn(tag) == {x \in Calls : QueueOf(x.op) = tag}

\* Builder b after one call, the descriptor labelled by its place in its queue.
Call(b, reg) ==
    ApplyReg(b, reg, TopId(QueueOf(reg.op), QueueIn(b, QueueOf(reg.op))))

QueueIds(b) ==
    [i \in 1..Len(b.systems) |-> b.systems[i][2].id]
    \o [i \in 1..Len(b.bundles) |-> b.bundles[i].id]
    \o [i \in 1..Len(b.thread_locals) |-> b.thread_locals[i].id]

FirstPassIds ==
    LET first == SelectSeq(log, LAMBDA e : e.ev = "consume" /\ e.pass = 1)
    IN  [i \in 1..Len(first) |-> first[i].id]

\* C19: two registration calls of different kinds leave the same builder in
\* either order, and a completed build consumes the builder's descriptors in
\* the order of its queues, whatever order the calls were made in.
C19_KindOrderIrrelevant ==
    /\ pc = "register" =>
         /\ \A x \in CallsOn("s"), y \in CallsOn("b") \cup CallsOn("t") :
                Call(Call(builder, x), y) = Call(Call(builder, y), x)
         /\ \A x \in CallsOn("b"), y \in CallsOn("t") :
                Call(Call(builder, x), y) = Call(Call(builder, y), x)
    /\ HasBuilt => FirstPassIds = QueueIds(builder)

C19_Witness ==
    /\ HasBuilt
    /\ Len(builder.systems) = 1
    /\ Len(builder.bundles) = 1
    /\ Len(builder.thread_locals) = 1
    /\ Len(FirstPassIds) = 3

\* A call of run leaves the dispatcher as it was, panic or not.
RunKeepsSchedule == pc = "built" => built' = built

\* A run of the stage of the run before it executes the same tasks.
RerunRunsTheSame ==
    ( /\ pc = "built"
      /\ pc' = "built"
      /\ ran.calls >= 1
      /\ ran'.calls = ran.calls + 1
      /\ ran'.stage = ran.stage ) =>
        /\ ran'.handed = ran.handed
        /\ ran'.events = ran.events

\* C20: run changes neither the stage buckets nor the thread-local list, and
\* running a stage again executes the same tasks in the same way.
C20_RunKeepsSchedule == [][RunKeepsSchedule /\ RerunRunsTheSame]_vars

C20_Witness ==
    /\ pc = "built"
    /\ ran.calls = 2
    /\ ran.handed # <<>>
    /\ built[1].stages[ran.stage] = ran.handed

====
